---- MODULE Spec2Model ----
(***************************************************************************)
(* kobraille (src/kobraille/core.py): LaTeX arithmetic -> Korean braille.  *)
(*                                                                         *)
(* A text is a sequence of characters, each a string.  A braille cell is   *)
(* the number of its dot pattern, i.e. its code point minus U+2800 (the    *)
(* number indicator U+283C is 60).  Positions are 0-based as in the        *)
(* source; the i-th Python element of s is s[i + 1].                       *)
(***************************************************************************)
EXTENDS Integers, Sequences, FiniteSets, TLC

(***************************************************************************)
(* Bounds of the model.                                                    *)
(***************************************************************************)
MaxLen == 4        \* longest text drawn freely over Alphabet
MaxNumLen == 1     \* longest numeral in the generated expression texts

(***************************************************************************)
(* Characters.                                                             *)
(***************************************************************************)
AsciiDigits == {"0", "1", "2", "3", "4", "5", "6", "7", "8", "9"}

\* Characters outside 0-9 for which Python's str.isdigit() is true:
\* SUPERSCRIPT TWO, written here by its code point.
UnicodeDigits == {"U+00B2"}

Whitespace == {" ", "\t"}

\* str.isdigit() on one character
isdigit(ch) == ch \in AsciiDigits \cup UnicodeDigits

\* str.isspace() on one character
isspace(ch) == ch \in Whitespace

TokenType == {"NUMBER", "PLUS", "MINUS", "STAR", "SLASH", "LPAREN", "RPAREN", "EOF"}

Token(type, value) == [type |-> type, value |-> value]

_CHAR_MAP == [ch \in {"+", "-", "*", "/", "(", ")"} |->
                CASE ch = "+" -> "PLUS"
                  [] ch = "-" -> "MINUS"
                  [] ch = "*" -> "STAR"
                  [] ch = "/" -> "SLASH"
                  [] ch = "(" -> "LPAREN"
                  [] ch = ")" -> "RPAREN"]

\* The value every stage reports when it raised nothing.
NoError == [type |-> "None"]

(***************************************************************************)
(* PART 1.  Lexer                                                          *)
(***************************************************************************)
\* text.replace("$", "")
RemoveDollar(text) == SelectSeq(text, LAMBDA ch : ch # "$")

RECURSIVE lstrip(_)
lstrip(text) ==
    IF text # << >> /\ isspace(Head(text)) THEN lstrip(Tail(text)) ELSE text

RECURSIVE rstrip(_)
rstrip(text) ==
    IF text # << >> /\ isspace(text[Len(text)])
    THEN rstrip(SubSeq(text, 1, Len(text) - 1))
    ELSE text

\* str.strip()
strip(text) == rstrip(lstrip(text))

\* Lexer.__init__
Lexer(text) == [text |-> strip(RemoveDollar(text)), pos |-> 0]

\* Lexer._current: the character at pos, or "" (None) past the end
Lexer_current(text, pos) == IF pos < Len(text) THEN <<text[pos + 1]>> ELSE << >>

\* _skip_whitespace with `if` for `while`: at most one character skipped
_skip_whitespace_once(text, pos) ==
    IF Lexer_current(text, pos) # << >> /\ isspace(Lexer_current(text, pos)[1])
    THEN pos + 1
    ELSE pos

\* Lexer._skip_whitespace: the position after the whitespace at pos
RECURSIVE _skip_whitespace(_, _)
_skip_whitespace(text, pos) ==
    IF Lexer_current(text, pos) # << >> /\ isspace(Lexer_current(text, pos)[1])
    THEN _skip_whitespace(text, pos + 1)
    ELSE pos

\* Lexer._read_number: the position after the digit run at pos
RECURSIVE _read_number_end(_, _)
_read_number_end(text, pos) ==
    IF Lexer_current(text, pos) # << >> /\ isdigit(Lexer_current(text, pos)[1])
    THEN _read_number_end(text, pos + 1)
    ELSE pos

_read_number(text, pos) ==
    [tok |-> Token("NUMBER", SubSeq(text, pos + 1, _read_number_end(text, pos))),
     pos |-> _read_number_end(text, pos)]

\* The LexError of tokenize: the values its message interpolates
LexError(ch, pos, text) ==
    [type |-> "LexError", ch |-> ch, pos |-> pos, len |-> Len(text), text |-> text]

\* One iteration of the while-True loop of Lexer.tokenize: what it leaves
\* behind (tokens, pos, exception) and whether the loop ends with it
tokenize_iteration(text, pos, tokens) ==
    LET p  == _skip_whitespace(text, pos)
        ch == Lexer_current(text, p)
    IN  IF ch = << >>
        THEN [tokens |-> Append(tokens, Token("EOF", << >>)), pos |-> p,
              error |-> NoError, stop |-> TRUE]
        ELSE IF isdigit(ch[1])
        THEN [tokens |-> Append(tokens, _read_number(text, p).tok),
              pos |-> _read_number(text, p).pos, error |-> NoError, stop |-> FALSE]
        ELSE IF ch[1] \in DOMAIN _CHAR_MAP
        THEN [tokens |-> Append(tokens, Token(_CHAR_MAP[ch[1]], ch)), pos |-> p + 1,
              error |-> NoError, stop |-> FALSE]
        ELSE [tokens |-> << >>, pos |-> p, error |-> LexError(ch[1], p, text),
              stop |-> TRUE]

RECURSIVE tokenize_loop(_, _, _)

\* the loop of tokenize stopping at the end of the text without an EOF token
tokenize_loop_no_eof(text, pos, tokens) ==
    LET p  == _skip_whitespace(text, pos)
        ch == Lexer_current(text, p)
    IN  IF ch = << >>
        THEN [tokens |-> tokens, pos |-> p, error |-> NoError]
        ELSE IF isdigit(ch[1])
        THEN tokenize_loop(text, _read_number(text, p).pos,
                           Append(tokens, _read_number(text, p).tok))
        ELSE IF ch[1] \in DOMAIN _CHAR_MAP
        THEN tokenize_loop(text, p + 1, Append(tokens, Token(_CHAR_MAP[ch[1]], ch)))
        ELSE [tokens |-> << >>, pos |-> p, error |-> LexError(ch[1], p, text)]

\* The while-True loop of Lexer.tokenize, from position pos with the tokens
\* appended so far.  The result is what the call leaves behind: the returned
\* list (tokens, meaningful when error is NoError), the lexer's pos, the
\* exception raised.
tokenize_loop(text, pos, tokens) ==
    LET p  == _skip_whitespace(text, pos)
        ch == Lexer_current(text, p)
    IN  IF ch = << >>
        THEN [tokens |-> Append(tokens, Token("EOF", << >>)), pos |-> p,
              error |-> NoError]
        ELSE IF isdigit(ch[1])
        THEN tokenize_loop(text, _read_number(text, p).pos,
                           Append(tokens, _read_number(text, p).tok))
        ELSE IF ch[1] \in DOMAIN _CHAR_MAP
        THEN tokenize_loop(text, p + 1, Append(tokens, Token(_CHAR_MAP[ch[1]], ch)))
        ELSE [tokens |-> << >>, pos |-> p, error |-> LexError(ch[1], p, text)]

\* Lexer.tokenize on a lexer object
tokenize(lx) == tokenize_loop(lx.text, lx.pos, << >>)

(***************************************************************************)
(* PART 2.  AST nodes                                                      *)
(***************************************************************************)
NumberNode(value) == [type |-> "NumberNode", value |-> value]

BinaryOpNode(op, left, right) ==
    [type |-> "BinaryOpNode", op |-> op, left |-> left, right |-> right]

GroupNode(expr) == [type |-> "GroupNode", expr |-> expr]

\* No tree: what a parse that raised leaves in place of a node.
NoNode == [type |-> "None"]

(***************************************************************************)
(* PART 3.  Parser.  Each procedure maps (tokens, pos) to the node it      *)
(* returns, the parser's pos afterwards and the exception it raised.       *)
(***************************************************************************)
\* The ParseError of _eat and parse_factor: the values its message
\* interpolates (the expected kinds, the actual token's kind and text)
ParseError(expected, tok) ==
    [type |-> "ParseError", expected |-> expected,
     actual_type |-> tok.type, actual_value |-> tok.value]

\* tokens[self.pos] past the end of the list
IndexError == [type |-> "IndexError"]

Raise(pos, error) == [node |-> NoNode, pos |-> pos, error |-> error]

Return(node, pos) == [node |-> node, pos |-> pos, error |-> NoError]

\* Parser._current / Parser._peek_type are defined where pos indexes a token
Parser_in_range(tokens, pos) == pos < Len(tokens)

Parser_current(tokens, pos) == tokens[pos + 1]

\* _eat reporting the expected kind as the actual token and the actual kind
\* as the expected one
_eat_swapped(tokens, pos, expected) ==
    IF ~Parser_in_range(tokens, pos) THEN Raise(pos, IndexError)
    ELSE IF Parser_current(tokens, pos).type # expected
    THEN Raise(pos, ParseError({Parser_current(tokens, pos).type},
                               Token(expected, << >>)))
    ELSE Return(NoNode, pos + 1)

\* Parser._eat
_eat(tokens, pos, expected) ==
    IF ~Parser_in_range(tokens, pos) THEN Raise(pos, IndexError)
    ELSE IF Parser_current(tokens, pos).type # expected
    THEN Raise(pos, ParseError({expected}, Parser_current(tokens, pos)))
    ELSE Return(NoNode, pos + 1)

\* node = BinaryOpNode(op=op_tok.value, left=node, right=right), where left
\* and right are what the calls that parsed the operands left behind
binary_op(op_tok, left, right) ==
    IF right.error # NoError THEN right
    ELSE Return(BinaryOpNode(op_tok.value, left.node, right.node), right.pos)

RECURSIVE parse_expr(_, _)
RECURSIVE parse_expr_loop(_, _)
RECURSIVE parse_term(_, _)
RECURSIVE parse_term_loop(_, _)
RECURSIVE parse_factor(_, _)

\* Parser.parse_expr:  expr -> term ( ('+' | '-') term )*
parse_expr(tokens, pos) == parse_expr_loop(tokens, parse_term(tokens, pos))

\* parse_expr taking everything after the operator as the right operand
\* (right recursion instead of the loop)
parse_expr_loop_right_recursive(tokens, last) ==
    IF last.error # NoError THEN last
    ELSE IF ~Parser_in_range(tokens, last.pos) THEN Raise(last.pos, IndexError)
    ELSE IF Parser_current(tokens, last.pos).type \in {"PLUS", "MINUS"}
    THEN binary_op(Parser_current(tokens, last.pos), last,
                   parse_expr(tokens, last.pos + 1))
    ELSE last

\* the while loop of parse_expr; last is what the latest parse_term call
\* joined to the node built so far left behind (node, pos, exception)
parse_expr_loop(tokens, last) ==
    IF last.error # NoError THEN last
    ELSE IF ~Parser_in_range(tokens, last.pos) THEN Raise(last.pos, IndexError)
    ELSE IF Parser_current(tokens, last.pos).type \in {"PLUS", "MINUS"}
    THEN parse_expr_loop(tokens,
             binary_op(Parser_current(tokens, last.pos), last,
                       parse_term(tokens, last.pos + 1)))
    ELSE last

\* Parser.parse_term:  term -> factor ( ('*' | '/') factor )*
parse_term(tokens, pos) == parse_term_loop(tokens, parse_factor(tokens, pos))

\* the loop of parse_term taking + and - as well as * and /
parse_term_loop_any_operator(tokens, last) ==
    IF last.error # NoError THEN last
    ELSE IF ~Parser_in_range(tokens, last.pos) THEN Raise(last.pos, IndexError)
    ELSE IF Parser_current(tokens, last.pos).type \in {"STAR", "SLASH", "PLUS", "MINUS"}
    THEN parse_term_loop(tokens,
             binary_op(Parser_current(tokens, last.pos), last,
                       parse_factor(tokens, last.pos + 1)))
    ELSE last

\* the while loop of parse_term; last as in parse_expr_loop
parse_term_loop(tokens, last) ==
    IF last.error # NoError THEN last
    ELSE IF ~Parser_in_range(tokens, last.pos) THEN Raise(last.pos, IndexError)
    ELSE IF Parser_current(tokens, last.pos).type \in {"STAR", "SLASH"}
    THEN parse_term_loop(tokens,
             binary_op(Parser_current(tokens, last.pos), last,
                       parse_factor(tokens, last.pos + 1)))
    ELSE last

\* the end of the '(' branch of parse_factor: self._eat(RPAREN) and
\* return GroupNode(expr=inner), after inner = self.parse_expr()
close_group(tokens, inner) ==
    IF inner.error # NoError THEN inner
    ELSE IF _eat(tokens, inner.pos, "RPAREN").error # NoError
    THEN _eat(tokens, inner.pos, "RPAREN")
    ELSE Return(GroupNode(inner.node), _eat(tokens, inner.pos, "RPAREN").pos)

\* Parser.parse_factor:  factor -> NUMBER | '(' expr ')'
parse_factor(tokens, pos) ==
    IF ~Parser_in_range(tokens, pos) THEN Raise(pos, IndexError)
    ELSE IF Parser_current(tokens, pos).type = "NUMBER"
    THEN Return(NumberNode(Parser_current(tokens, pos).value), pos + 1)
    ELSE IF Parser_current(tokens, pos).type = "LPAREN"
    THEN IF _eat(tokens, pos, "LPAREN").error # NoError
         THEN _eat(tokens, pos, "LPAREN")
         ELSE close_group(tokens,
                  parse_expr(tokens, _eat(tokens, pos, "LPAREN").pos))
    ELSE Raise(pos, ParseError({"NUMBER", "LPAREN"}, Parser_current(tokens, pos)))

\* the end of parse: self._eat(EOF) and return tree, after
\* tree = self.parse_expr()
end_of_input(tokens, tree) ==
    IF tree.error # NoError THEN tree
    ELSE IF _eat(tokens, tree.pos, "EOF").error # NoError
    THEN _eat(tokens, tree.pos, "EOF")
    ELSE Return(tree.node, _eat(tokens, tree.pos, "EOF").pos)

\* parse without the final _eat(EOF)
parse_unchecked(tokens) == parse_expr(tokens, 0)

\* Parser.parse on a new Parser(tokens), whose pos is 0
parse(tokens) == end_of_input(tokens, parse_expr(tokens, 0))

(***************************************************************************)
(* PART 4.  Visitors.  An encoding is a sequence of braille cells; a       *)
(* visit yields the string it returns (out) and the exception it raised.   *)
(***************************************************************************)
NUMBER_INDICATOR == 60     \* U+283C, dots 3-4-5-6

DIGIT_MAP == [d \in AsciiDigits |->
                CASE d = "0" -> 26
                  [] d = "1" -> 1
                  [] d = "2" -> 3
                  [] d = "3" -> 9
                  [] d = "4" -> 25
                  [] d = "5" -> 17
                  [] d = "6" -> 11
                  [] d = "7" -> 27
                  [] d = "8" -> 19
                  [] d = "9" -> 10]

OP_MAP == [op \in {<<"+">>, <<"-">>, <<"*">>, <<"/">>} |->
                CASE op = <<"+">> -> <<34>>
                  [] op = <<"-">> -> <<20>>
                  [] op = <<"*">> -> <<33>>
                  [] op = <<"/">> -> <<12, 12>>]

LPAREN_BRAILLE == 38       \* U+2826, dots 2-3-6
RPAREN_BRAILLE == 52       \* U+2834, dots 2-4-5-6

\* A dictionary lookup with a key the dictionary does not hold
KeyError(key) == [type |-> "KeyError", key |-> key]

Encoded(out) == [out |-> out, error |-> NoError]

EncodeRaise(error) == [out |-> << >>, error |-> error]

RECURSIVE join_digits(_, _)

\* the join putting each new cell in front of the cells joined so far
join_digits_reversed(num_str, out) ==
    IF num_str = << >> THEN Encoded(out)
    ELSE IF Head(num_str) \notin DOMAIN DIGIT_MAP
    THEN EncodeRaise(KeyError(Head(num_str)))
    ELSE join_digits(Tail(num_str), <<DIGIT_MAP[Head(num_str)]>> \o out)

\* "".join(self.DIGIT_MAP[d] for d in num_str), after the cells joined so far
join_digits(num_str, out) ==
    IF num_str = << >> THEN Encoded(out)
    ELSE IF Head(num_str) \notin DOMAIN DIGIT_MAP
    THEN EncodeRaise(KeyError(Head(num_str)))
    ELSE join_digits(Tail(num_str), Append(out, DIGIT_MAP[Head(num_str)]))

\* BrailleVisitor._number_to_braille
_number_to_braille(num_str, with_indicator) ==
    LET indicator == IF with_indicator THEN <<NUMBER_INDICATOR>> ELSE << >>
        digits    == join_digits(num_str, << >>)
    IN  IF digits.error # NoError THEN digits
        ELSE Encoded(indicator \o digits.out)

RECURSIVE _visit(_, _)

\* visit_number putting the indicator whatever the flag says
ContextVisitor_visit_number_always_marked(node, need_indicator) ==
    _number_to_braille(node.value, TRUE)

\* _ContextVisitor.visit_number
ContextVisitor_visit_number(node, need_indicator) ==
    _number_to_braille(node.value, need_indicator)

\* visit_binary_op with the right operand visited without asking for an
\* indicator
ContextVisitor_visit_binary_op_right_unmarked(node, need_indicator) ==
    LET left  == _visit(node.left, need_indicator)
        right == _visit(node.right, FALSE)
    IN  IF left.error # NoError THEN left
        ELSE IF node.op \notin DOMAIN OP_MAP THEN EncodeRaise(KeyError(node.op))
        ELSE IF right.error # NoError THEN right
        ELSE Encoded(left.out \o OP_MAP[node.op] \o right.out)

\* _ContextVisitor.visit_binary_op
ContextVisitor_visit_binary_op(node, need_indicator) ==
    LET left  == _visit(node.left, need_indicator)
        right == _visit(node.right, TRUE)
    IN  IF left.error # NoError THEN left
        ELSE IF node.op \notin DOMAIN OP_MAP THEN EncodeRaise(KeyError(node.op))
        ELSE IF right.error # NoError THEN right
        ELSE Encoded(left.out \o OP_MAP[node.op] \o right.out)

\* visit_group visiting the inner expression without asking for an indicator
ContextVisitor_visit_group_unmarked(node) ==
    LET inner == _visit(node.expr, FALSE)
    IN  IF inner.error # NoError THEN inner
        ELSE Encoded(<<LPAREN_BRAILLE>> \o inner.out \o <<RPAREN_BRAILLE>>)

\* _ContextVisitor.visit_group
ContextVisitor_visit_group(node) ==
    LET inner == _visit(node.expr, TRUE)
    IN  IF inner.error # NoError THEN inner
        ELSE Encoded(<<LPAREN_BRAILLE>> \o inner.out \o <<RPAREN_BRAILLE>>)

\* BrailleVisitor._visit: node.accept(_ContextVisitor(self, need_indicator))
_visit(node, need_indicator) ==
    CASE node.type = "NumberNode"   -> ContextVisitor_visit_number(node, need_indicator)
      [] node.type = "BinaryOpNode" -> ContextVisitor_visit_binary_op(node, need_indicator)
      [] node.type = "GroupNode"    -> ContextVisitor_visit_group(node)

\* BrailleVisitor.convert
convert(node) == _visit(node, TRUE)

\* node.accept(DebugVisitor()): the structure echo, a text
RECURSIVE DebugVisitor(_)
DebugVisitor(node) ==
    CASE node.type = "NumberNode"   -> node.value
      [] node.type = "BinaryOpNode" ->
            <<"(">> \o DebugVisitor(node.left) \o <<" ">> \o node.op \o <<" ">>
                    \o DebugVisitor(node.right) \o <<")">>
      [] node.type = "GroupNode"    -> <<"[">> \o DebugVisitor(node.expr) \o <<"]">>

(***************************************************************************)
(* PART 5.  The pipeline as a function of the text: what one call of       *)
(* latex_to_korean_braille returns (braille) or raises (error).            *)
(***************************************************************************)
latex_to_korean_braille(latex) ==
    LET lexed   == tokenize(Lexer(latex))
        parsed  == parse(lexed.tokens)
        encoded == convert(parsed.node)
    IN  IF lexed.error # NoError THEN [braille |-> << >>, error |-> lexed.error]
        ELSE IF parsed.error # NoError THEN [braille |-> << >>, error |-> parsed.error]
        ELSE [braille |-> encoded.out, error |-> encoded.error]

(***************************************************************************)
(* The input texts of the model.                                           *)
(***************************************************************************)
\* Characters of the freely drawn texts: two digits, two operators (one of
\* each precedence level), the brackets, a blank, the delimiter, a character
\* the lexer does not know and a digit outside 0-9.
Alphabet == {"0", "7", "+", "*", "(", ")", " ", "$", "&", "U+00B2"}

FreeTexts == UNION {[1..n -> Alphabet] : n \in 0..MaxLen}

ExprDigits == {"1", "2"}

Numerals == UNION {[1..n -> ExprDigits] : n \in 1..MaxNumLen}

Operators == {"+", "-", "*", "/"}

\* a op1 b op2 c, written without blanks and with one blank around operators
ThreeOperandTexts ==
    UNION {{a \o <<op1>> \o b \o <<op2>> \o c,
            a \o <<" ", op1, " ">> \o b \o <<" ", op2, " ">> \o c} :
           <<a, b, c, op1, op2>> \in
               Numerals \X Numerals \X Numerals \X Operators \X Operators}

\* The examples of the documentation and of the demo driver
ExampleTexts ==
    {<<"3", " ", "+", " ", "5">>,
     <<"(", "2", "+", "3", ")", "*", "4">>,
     <<"$", "7", " ", "-", " ", "3", " ", "+", " ", "1", "$">>,
     <<"$", "3", "+", "5", "$">>,
     <<" ", " ", "3", "+", "5", " ", " ">>,
     <<"1", "0", " ", "-", " ", "6", " ", "/", " ", "2">>,
     <<"2", " ", "*", " ", "(", "3", " ", "+", " ", "4", ")">>,
     <<"3", " ", "&", " ", "4">>,
     <<"3", " ", "+", " ">>,
     <<"(", "3", ")", "4">>,
     <<"3", " ", "4">>,
     <<"3", ")">>,
     <<"2", " ", "+", " ", "3", " ", "*", " ", "4">>,
     <<"1", " ", "-", " ", "2", " ", "-", " ", "3">>,
     <<"0", "0", "7">>,
     <<"4", "2">>,
     <<"2", "+", "3">>}

Inputs == FreeTexts \cup ThreeOperandTexts \cup ExampleTexts

(***************************************************************************)
(* One run of the pipeline (latex_to_korean_braille and the demo driver,   *)
(* which also asks for the structure echo of the tree).                    *)
(***************************************************************************)
VARIABLES
    latex,      \* the text given to the pipeline
    pc,         \* "start", "lexer", "tokens", "ast", "done" or "raised"
    lexer,      \* the Lexer object: its text and pos
    tokens,     \* the list tokenize returned
    parser_pos, \* Parser.pos after parse
    ast,        \* the tree parse returned
    debug_str,  \* the structure echo of the tree
    braille,    \* the string convert returned
    error,      \* the exception that ended the run
    need_indicator, \* the flag the traversal of the tree was started with
    frames,     \* the calls in progress when a stage is followed step by step
    accepted    \* what ast.accept(BrailleVisitor()) returned or raised

vars == <<latex, pc, lexer, tokens, parser_pos, ast, debug_str, braille, error,
          need_indicator, frames, accepted>>

Init ==
    /\ latex \in Inputs
    /\ pc = "start"
    /\ lexer = [text |-> << >>, pos |-> 0]
    /\ tokens = << >>
    /\ parser_pos = 0
    /\ ast = NoNode
    /\ debug_str = << >>
    /\ braille = << >>
    /\ error = NoError
    /\ need_indicator = TRUE
    /\ frames = << >>
    /\ accepted = [called |-> FALSE]

\* Lexer(latex)
NewLexer ==
    /\ pc = "start"
    /\ lexer' = Lexer(latex)
    /\ pc' = "lexer"
    /\ UNCHANGED <<latex, tokens, parser_pos, ast, debug_str, braille, error, need_indicator,
                 frames, accepted>>

\* tokens = Lexer(latex).tokenize()
Tokenize ==
    /\ pc = "lexer"
    /\ LET lexed == tokenize(lexer)
       IN  /\ lexer' = [lexer EXCEPT !.pos = lexed.pos]
           /\ tokens' = lexed.tokens
           /\ error' = lexed.error
           /\ pc' = IF lexed.error = NoError THEN "tokens" ELSE "raised"
    /\ UNCHANGED <<latex, parser_pos, ast, debug_str, braille, need_indicator, frames, accepted>>

\* ast = Parser(tokens).parse()
Parse ==
    /\ pc = "tokens"
    /\ LET parsed == parse(tokens)
       IN  /\ parser_pos' = parsed.pos
           /\ ast' = parsed.node
           /\ error' = parsed.error
           /\ pc' = IF parsed.error = NoError THEN "ast" ELSE "raised"
    /\ UNCHANGED <<latex, lexer, tokens, debug_str, braille, need_indicator, frames, accepted>>

\* debug_str = ast.accept(debug_visitor)
Debug ==
    /\ pc = "ast"
    /\ debug_str = << >>
    /\ debug_str' = DebugVisitor(ast)
    /\ UNCHANGED <<latex, pc, lexer, tokens, parser_pos, ast, braille, error, need_indicator,
                 frames, accepted>>

\* BrailleVisitor().convert(ast)
Convert ==
    /\ pc = "ast"
    /\ LET encoded == convert(ast)
       IN  /\ braille' = encoded.out
           /\ error' = encoded.error
           /\ pc' = IF encoded.error = NoError THEN "done" ELSE "raised"
    /\ need_indicator' = TRUE
    /\ UNCHANGED <<latex, lexer, tokens, parser_pos, ast, debug_str, frames, accepted>>

Next == NewLexer \/ Tokenize \/ Parse \/ Debug \/ Convert

Spec == Init /\ [][Next]_vars

TypeOK ==
    /\ pc \in {"start", "lexer", "tokens", "ast", "done", "raised"}
    /\ error.type \in {"None", "LexError", "ParseError", "IndexError", "KeyError"}

(***************************************************************************)
(* Where a run stands.                                                     *)
(***************************************************************************)
\* tokenize has returned a token list
Tokenized ==
    \/ pc \in {"tokens", "ast", "done"}
    \/ pc = "raised" /\ error.type # "LexError"

\* tokenize has run (returned or raised)
TokenizeRan == pc \notin {"start", "lexer"}

\* parse has returned a tree
Parsed ==
    \/ pc \in {"ast", "done"}
    \/ pc = "raised" /\ error.type = "KeyError"

\* parse has raised
ParseRaised == pc = "raised" /\ error.type \in {"ParseError", "IndexError"}

\* the run is over
Finished == pc \in {"done", "raised"}

DigitCells == {DIGIT_MAP[d] : d \in DOMAIN DIGIT_MAP}

(***************************************************************************)
(* C1.  Whenever convert succeeds, every maximal run of adjacent digit     *)
(* cells of the output is immediately preceded by exactly one number       *)
(* indicator, and an indicator stands nowhere else: each indicator is      *)
(* directly followed by a digit cell (never by an indicator, an operator   *)
(* or a bracket cell, never at the end).                                   *)
(***************************************************************************)
C1_IndicatorPerDigitRun ==
    pc = "done" =>
        /\ \A i \in 1..Len(braille) :
              (braille[i] \in DigitCells /\ (i = 1 \/ braille[i - 1] \notin DigitCells))
                  => /\ i > 1
                     /\ braille[i - 1] = NUMBER_INDICATOR
                     /\ (i > 2 => braille[i - 2] # NUMBER_INDICATOR)
        /\ \A i \in 1..Len(braille) :
              braille[i] = NUMBER_INDICATOR
                  => /\ i < Len(braille)
                     /\ braille[i + 1] \in DigitCells

\* an output with several digit runs, one of them longer than one cell
C1_Witness ==
    /\ pc = "done"
    /\ Cardinality({i \in 1..Len(braille) : braille[i] = NUMBER_INDICATOR}) >= 2
    /\ \E i \in 1..(Len(braille) - 1) :
          braille[i] \in DigitCells /\ braille[i + 1] \in DigitCells

(***************************************************************************)
(* C2.  Every run ends in one of three ways: an output string, the lexical *)
(* error or the syntax error; and every tree the parser returns holds only *)
(* non-empty numerals of the digits 0-9 and the four operators.            *)
(***************************************************************************)
RECURSIVE WellFormedTree(_)
WellFormedTree(node) ==
    CASE node.type = "NumberNode" ->
            /\ node.value # << >>
            /\ \A i \in 1..Len(node.value) : node.value[i] \in AsciiDigits
      [] node.type = "BinaryOpNode" ->
            /\ node.op \in {<<"+">>, <<"-">>, <<"*">>, <<"/">>}
            /\ WellFormedTree(node.left)
            /\ WellFormedTree(node.right)
      [] node.type = "GroupNode" -> WellFormedTree(node.expr)
      [] OTHER -> FALSE

C2_ThreeOutcomes ==
    /\ error.type \in {"None", "LexError", "ParseError"}
    /\ Parsed => WellFormedTree(ast)

(***************************************************************************)
(* C3.  If the normalized text holds a character that is neither           *)
(* whitespace, nor a digit 0-9, nor one of + - * / ( ), tokenize raises    *)
(* the lexical error, returns no tokens, and the error reports the first   *)
(* such character, its 0-based position and the whole normalized text.     *)
(***************************************************************************)
KnownChars == Whitespace \cup AsciiDigits \cup {"+", "-", "*", "/", "(", ")"}

UnknownAt(text) == {i \in 1..Len(text) : text[i] \notin KnownChars}

FirstUnknown(text) == CHOOSE i \in UnknownAt(text) : \A j \in UnknownAt(text) : i <= j

C3_UnknownCharIsLexError ==
    (TokenizeRan /\ UnknownAt(lexer.text) # {}) =>
        /\ pc = "raised"
        /\ tokens = << >>
        /\ error = LexError(lexer.text[FirstUnknown(lexer.text)],
                            FirstUnknown(lexer.text) - 1, lexer.text)

(***************************************************************************)
(* C4 as stated.  Every syntax error carries the expected token kind, the  *)
(* actual token and the position at which the violation occurred.          *)
(***************************************************************************)
C4_ParseErrorCarriesPosition ==
    error.type = "ParseError" =>
        /\ {"expected", "actual_type", "actual_value", "pos"} \subseteq DOMAIN error
        /\ error.pos = parser_pos

(***************************************************************************)
(* C4 as amended.  Every syntax error carries the expected token kind(s)   *)
(* and the actual token, kind and text, and nothing else: the actual token *)
(* is the token at the position where the parser stopped, its kind is not  *)
(* an expected one, and the error holds no position.                       *)
(***************************************************************************)
C4_ParseErrorCarriesExpectedAndActual ==
    error.type = "ParseError" =>
        /\ DOMAIN error = {"type", "expected", "actual_type", "actual_value"}
        /\ error.expected \in {{"EOF"}, {"RPAREN"}, {"NUMBER", "LPAREN"}}
        /\ parser_pos < Len(tokens)
        /\ Token(error.actual_type, error.actual_value) = tokens[parser_pos + 1]
        /\ error.actual_type \notin error.expected

\* a missing closing parenthesis, found after some tokens were consumed
C4_Witness ==
    /\ pc = "raised"
    /\ error.type = "ParseError"
    /\ error.expected = {"RPAREN"}
    /\ parser_pos >= 2

(***************************************************************************)
(* C5.  parse either returns a tree having consumed every token, the final *)
(* EOF included, or raises the syntax error and returns no tree.  A        *)
(* complete expression followed by a number or a bracket with no operator  *)
(* between them, and an operator with nothing after it, are syntax errors. *)
(***************************************************************************)
IsOperatorToken(tok) == tok.type \in {"PLUS", "MINUS", "STAR", "SLASH"}

\* the first k tokens are a complete expression and the next token is not an
\* operator
CompleteThenToken(k) ==
    /\ tokens[k + 1].type \in {"NUMBER", "LPAREN", "RPAREN"}
    /\ parse(Append(SubSeq(tokens, 1, k), Token("EOF", << >>))).error = NoError

C5_ParseConsumesAllOrFails ==
    /\ Parsed => /\ ast # NoNode
                 /\ parser_pos = Len(tokens)
                 /\ tokens[parser_pos].type = "EOF"
    /\ ParseRaised => /\ error.type = "ParseError"
                      /\ ast = NoNode
    /\ (Parsed \/ ParseRaised) =>
          /\ (\E k \in 1..(Len(tokens) - 2) : CompleteThenToken(k))
                => (ParseRaised /\ error.expected = {"EOF"})
          /\ (Len(tokens) >= 2 /\ IsOperatorToken(tokens[Len(tokens) - 1]))
                => ParseRaised

\* "(3)4": the tree of "(3)" is complete and the token 4 is left over
C5_Witness ==
    /\ ParseRaised
    /\ latex = <<"(", "3", ")", "4">>
    /\ parser_pos = 3

(***************************************************************************)
(* C6.  Whenever tokenize returns, the token list is not empty, its last   *)
(* token is EOF and no other token is; for a text of only whitespace and   *)
(* `$` (or no character at all) it is the single EOF token.                *)
(***************************************************************************)
C6_TokensEndWithOneEOF ==
    Tokenized =>
        /\ tokens # << >>
        /\ tokens[Len(tokens)].type = "EOF"
        /\ \A i \in 1..(Len(tokens) - 1) : tokens[i].type # "EOF"
        /\ (\A i \in 1..Len(latex) : latex[i] \in Whitespace \cup {"$"})
              => tokens = <<Token("EOF", << >>)>>

\* a text of several tokens has been tokenized
C6_Witness ==
    /\ pc = "tokens"
    /\ Len(tokens) >= 4

(***************************************************************************)
(* Texts of the shape  a op1 b op2 c  (a, b, c numerals), seen through     *)
(* their tokens, and the two trees such a text can parse to.               *)
(***************************************************************************)
ThreeOperands ==
    /\ Len(tokens) = 6
    /\ tokens[1].type = "NUMBER" /\ IsOperatorToken(tokens[2])
    /\ tokens[3].type = "NUMBER" /\ IsOperatorToken(tokens[4])
    /\ tokens[5].type = "NUMBER"

IsAdditive(tok) == tok.type \in {"PLUS", "MINUS"}

IsMultiplicative(tok) == tok.type \in {"STAR", "SLASH"}

\* BinaryOp(op2, BinaryOp(op1, a, b), c)
LeftNested ==
    BinaryOpNode(tokens[4].value,
                 BinaryOpNode(tokens[2].value, NumberNode(tokens[1].value),
                              NumberNode(tokens[3].value)),
                 NumberNode(tokens[5].value))

\* BinaryOp(op1, a, BinaryOp(op2, b, c))
RightNested ==
    BinaryOpNode(tokens[2].value,
                 NumberNode(tokens[1].value),
                 BinaryOpNode(tokens[4].value, NumberNode(tokens[3].value),
                              NumberNode(tokens[5].value)))

(***************************************************************************)
(* C7.  Operators of one precedence level associate to the left: with op1  *)
(* and op2 both in {+, -} or both in {*, /}, the text a op1 b op2 c parses *)
(* to BinaryOp(op2, BinaryOp(op1, a, b), c), and its structure echo is     *)
(* "((a op1 b) op2 c)"; for "1 - 2 - 3" that is "((1 - 2) - 3)".           *)
(***************************************************************************)
C7_LeftAssociative ==
    ( /\ Parsed \/ ParseRaised
      /\ ThreeOperands
      /\ \/ IsAdditive(tokens[2]) /\ IsAdditive(tokens[4])
         \/ IsMultiplicative(tokens[2]) /\ IsMultiplicative(tokens[4]) )
    => /\ Parsed
       /\ ast = LeftNested
       /\ debug_str # << >> =>
             debug_str = <<"(", "(">> \o tokens[1].value \o <<" ">> \o tokens[2].value
                           \o <<" ">> \o tokens[3].value \o <<")", " ">>
                           \o tokens[4].value \o <<" ">> \o tokens[5].value \o <<")">>

\* the structure echo of "1 - 2 - 3"
C7_Witness ==
    /\ latex = <<"1", " ", "-", " ", "2", " ", "-", " ", "3">>
    /\ debug_str = <<"(", "(", "1", " ", "-", " ", "2", ")", " ", "-", " ", "3", ")">>

(***************************************************************************)
(* C8.  * and / bind tighter than + and -, in either order: with op1 in    *)
(* {+, -} and op2 in {*, /}, a op1 b op2 c parses to                       *)
(* BinaryOp(op1, a, BinaryOp(op2, b, c)) and a op2 b op1 c parses to       *)
(* BinaryOp(op1, BinaryOp(op2, a, b), c).  For "2 + 3 * 4" the structure   *)
(* echo is "(2 + (3 * 4))" and the transcription is indicator, 2, the plus *)
(* cells, indicator, 3, the times cells, indicator, 4.                     *)
(***************************************************************************)
C8_MultiplicativeBindsTighter ==
    /\ ( /\ Parsed \/ ParseRaised
         /\ ThreeOperands
         /\ IsAdditive(tokens[2]) /\ IsMultiplicative(tokens[4]) )
       => (Parsed /\ ast = RightNested)
    /\ ( /\ Parsed \/ ParseRaised
         /\ ThreeOperands
         /\ IsMultiplicative(tokens[2]) /\ IsAdditive(tokens[4]) )
       => (Parsed /\ ast = LeftNested)
    /\ latex = <<"2", " ", "+", " ", "3", " ", "*", " ", "4">> =>
          /\ pc # "raised"
          /\ debug_str # << >> =>
                debug_str = <<"(", "2", " ", "+", " ", "(", "3", " ", "*", " ", "4", ")", ")">>
          /\ pc = "done" =>
                braille = <<NUMBER_INDICATOR, DIGIT_MAP["2"]>> \o OP_MAP[<<"+">>]
                            \o <<NUMBER_INDICATOR, DIGIT_MAP["3"]>> \o OP_MAP[<<"*">>]
                            \o <<NUMBER_INDICATOR, DIGIT_MAP["4"]>>

\* "2 + 3 * 4" echoed and transcribed
C8_Witness ==
    /\ latex = <<"2", " ", "+", " ", "3", " ", "*", " ", "4">>
    /\ pc = "done"
    /\ debug_str # << >>

(***************************************************************************)
(* The edits of a text that C9 calls noise.  A gap i of a text lies        *)
(* between its characters i and i + 1 (gap 0 before the first, gap Len     *)
(* after the last).  Since every `$` is dropped before scanning, a gap is  *)
(* inside a digit run when the nearest characters other than `$` on its    *)
(* two sides are both digits.                                              *)
(***************************************************************************)
Max(S) == CHOOSE x \in S : \A y \in S : y <= x

Min(S) == CHOOSE x \in S : \A y \in S : x <= y

InsideDigitRun(text, i) ==
    LET before == {j \in 1..i : text[j] # "$"}
        after  == {j \in (i + 1)..Len(text) : text[j] # "$"}
    IN  /\ before # {} /\ after # {}
        /\ isdigit(text[Max(before)])
        /\ isdigit(text[Min(after)])

InsertAt(text, i, ch) ==
    SubSeq(text, 1, i) \o <<ch>> \o SubSeq(text, i + 1, Len(text))

DeleteAt(text, i) == SubSeq(text, 1, i - 1) \o SubSeq(text, i + 1, Len(text))

NoiseEdits(text) ==
    \* a `$` deleted, anywhere
    {DeleteAt(text, i) : i \in {j \in 1..Len(text) : text[j] = "$"}}
    \* a whitespace character added at an end or between two tokens
    \cup {InsertAt(text, i, w) :
             i \in {j \in 0..Len(text) : ~InsideDigitRun(text, j)}, w \in Whitespace}
    \* a whitespace character removed from an end or from between two tokens
    \* (not the only thing that keeps two digit runs apart)
    \cup {DeleteAt(text, i) :
             i \in {j \in 1..Len(text) :
                       isspace(text[j]) /\ ~InsideDigitRun(DeleteAt(text, j), j - 1)}}

\* the same output string, or the same kind of error
SameOutcome(r1, r2) ==
    /\ r1.error.type = r2.error.type
    /\ r1.braille = r2.braille

C10_DigitsOnly ==
    (latex # << >> /\ \A i \in 1..Len(latex) : latex[i] \in AsciiDigits) =>
        /\ pc # "raised"
        /\ Tokenized => tokens = <<Token("NUMBER", latex), Token("EOF", << >>)>>
        /\ pc = "done" =>
              /\ braille = <<NUMBER_INDICATOR>>
                             \o [i \in 1..Len(latex) |-> DIGIT_MAP[latex[i]]]
              /\ Len(braille) = 1 + Len(latex)

\* "007" converted
C10_Witness ==
    /\ latex = <<"0", "0", "7">>
    /\ pc = "done"

(***************************************************************************)
(* C11.  Parenthesization round trip.  For every text E the pipeline       *)
(* converts, the text (E) converts to the left bracket, the braille of E   *)
(* unchanged, the right bracket; and as the first operand of a product,    *)
(* (E)*4 converts to those same cells followed by the operator and the     *)
(* encoding of 4.  For E = 2+3 these are the cells of (2+3)*4.             *)
(***************************************************************************)
Parenthesized(text) == <<"(">> \o text \o <<")">>

Bracketed(cells) == <<LPAREN_BRAILLE>> \o cells \o <<RPAREN_BRAILLE>>

C11_ParenthesizedOperand ==
    pc = "done" =>
        /\ latex_to_korean_braille(Parenthesized(latex))
              = [braille |-> Bracketed(braille), error |-> NoError]
        /\ latex_to_korean_braille(Parenthesized(latex) \o <<"*", "4">>)
              = [braille |-> Bracketed(braille) \o OP_MAP[<<"*">>]
                                 \o latex_to_korean_braille(<<"4">>).braille,
                 error |-> NoError]
        /\ latex = <<"2", "+", "3">> =>
              latex_to_korean_braille(<<"(", "2", "+", "3", ")", "*", "4">>).braille
                = <<LPAREN_BRAILLE>> \o braille
                    \o <<RPAREN_BRAILLE, 33, NUMBER_INDICATOR, 25>>

\* "2+3" converted: indicator 2, plus, indicator 3
C11_Witness ==
    /\ latex = <<"2", "+", "3">>
    /\ pc = "done"
    /\ braille = <<60, 3, 34, 60, 9>>

(***************************************************************************)
(* C12.  The operators are transcribed with the two cells the module       *)
(* documentation gives for them (dot 5, then the operator's cell), so the  *)
(* three documented calls return the documented strings, and every         *)
(* converted sum, difference, product or quotient carries the documented   *)
(* cells of its operator between its operands.                             *)
(***************************************************************************)
\* The operator rows of the KS X 1107 table of the module documentation
KS_X_1107_OP == [op \in {<<"+">>, <<"-">>, <<"*">>, <<"/">>} |->
                    CASE op = <<"+">> -> <<16, 22>>     \* U+2810 U+2816
                      [] op = <<"-">> -> <<16, 36>>     \* U+2810 U+2824
                      [] op = <<"*">> -> <<16, 38>>     \* U+2810 U+2826
                      [] op = <<"/">> -> <<16, 50>>]    \* U+2810 U+2832

\* The usage examples of latex_to_korean_braille: text and documented result
DocumentedExamples ==
    {[latex   |-> <<"3", " ", "+", " ", "5">>,
      braille |-> <<60, 9, 16, 22, 60, 17>>],
     [latex   |-> <<"(", "2", "+", "3", ")", "*", "4">>,
      braille |-> <<38, 60, 3, 16, 22, 60, 9, 52, 16, 38, 60, 25>>],
     [latex   |-> <<"$", "7", " ", "-", " ", "3", " ", "+", " ", "1", "$">>,
      braille |-> <<60, 27, 16, 36, 60, 9, 16, 22, 60, 1>>]}

C12_DocumentedOperatorCells ==
    pc = "done" =>
        /\ \A ex \in DocumentedExamples : latex = ex.latex => braille = ex.braille
        /\ ast.type = "BinaryOpNode" =>
              braille = convert(ast.left).out \o KS_X_1107_OP[ast.op]
                            \o convert(ast.right).out

(***************************************************************************)
(* The Lexer object used directly: tokenize may be called on a lexer that  *)
(* has already been tokenized.  The call is the same method on the same    *)
(* object, so it starts from the pos the earlier call left behind.         *)
(***************************************************************************)
\* lexer.tokenize() once more, on the lexer object of the run
TokenizeAgain ==
    /\ pc \in {"tokens", "raised"}
    /\ LET lexed == tokenize(lexer)
       IN  /\ lexer' = [lexer EXCEPT !.pos = lexed.pos]
           /\ tokens' = lexed.tokens
           /\ error' = lexed.error
           /\ pc' = IF lexed.error = NoError THEN "tokens" ELSE "raised"
    /\ UNCHANGED <<latex, parser_pos, ast, debug_str, braille, need_indicator, frames, accepted>>

LexerNext == NewLexer \/ Tokenize \/ TokenizeAgain

LexerSpec == Init /\ [][LexerNext]_vars

(***************************************************************************)
(* C13.  tokenize has no side effects: whatever calls were made before,    *)
(* a call of tokenize for a text returns (or raises) what a call on a      *)
(* fresh Lexer for that text returns (or raises).                          *)
(***************************************************************************)
C13_TokenizeRepeatable ==
    TokenizeRan =>
        IF tokenize(Lexer(latex)).error = NoError
        THEN Tokenized /\ tokens = tokenize(Lexer(latex)).tokens
        ELSE pc = "raised" /\ error = tokenize(Lexer(latex)).error

(***************************************************************************)
(* The encoder used directly: BrailleVisitor()._visit(ast, need_indicator) *)
(* on the tree of the run, with either value of the flag.                  *)
(***************************************************************************)
\* BrailleVisitor()._visit(ast, flag)
Visit ==
    /\ pc = "ast"
    /\ \E flag \in BOOLEAN :
          LET encoded == _visit(ast, flag)
          IN  /\ need_indicator' = flag
              /\ braille' = encoded.out
              /\ error' = encoded.error
              /\ pc' = IF encoded.error = NoError THEN "done" ELSE "raised"
    /\ UNCHANGED <<latex, lexer, tokens, parser_pos, ast, debug_str, frames, accepted>>

EncoderNext == NewLexer \/ Tokenize \/ Parse \/ Visit

EncoderSpec == Init /\ [][EncoderNext]_vars

(***************************************************************************)
(* C14.  Context propagation.  Whatever the tree and the incoming flag:    *)
(* a Number leaf is encoded with the indicator iff the flag is true; a     *)
(* BinaryOp as its left operand under the incoming flag, the operator's    *)
(* cells, its right operand under a true flag; a Group as the left         *)
(* bracket, its inner expression under a true flag, the right bracket.     *)
(* So under a false flag exactly one numeral goes without indicator, the   *)
(* first cell of the output, and only when the leftmost leaf is reached    *)
(* through left operands alone; every other numeral carries one.           *)
(***************************************************************************)
\* how many Number leaves the tree has
RECURSIVE Leaves(_)
Leaves(node) ==
    CASE node.type = "NumberNode"   -> 1
      [] node.type = "BinaryOpNode" -> Leaves(node.left) + Leaves(node.right)
      [] node.type = "GroupNode"    -> Leaves(node.expr)

\* the leftmost leaf is reached through left operands without a Group
RECURSIVE LeftSpineLeaf(_)
LeftSpineLeaf(node) ==
    CASE node.type = "NumberNode"   -> TRUE
      [] node.type = "BinaryOpNode" -> LeftSpineLeaf(node.left)
      [] node.type = "GroupNode"    -> FALSE

\* where a run of digit cells starts with no indicator before it
UnmarkedStarts(cells) ==
    {i \in 1..Len(cells) :
        /\ cells[i] \in DigitCells
        /\ i = 1 \/ cells[i - 1] \notin DigitCells \cup {NUMBER_INDICATOR}}

Indicators(cells) == {i \in 1..Len(cells) : cells[i] = NUMBER_INDICATOR}

C14_ContextPropagation ==
    pc = "done" =>
        /\ ast.type = "NumberNode" =>
              braille = (IF need_indicator THEN <<NUMBER_INDICATOR>> ELSE << >>)
                          \o [i \in 1..Len(ast.value) |-> DIGIT_MAP[ast.value[i]]]
        /\ ast.type = "BinaryOpNode" =>
              braille = _visit(ast.left, need_indicator).out \o OP_MAP[ast.op]
                          \o _visit(ast.right, TRUE).out
        /\ ast.type = "GroupNode" =>
              braille = <<LPAREN_BRAILLE>> \o _visit(ast.expr, TRUE).out
                          \o <<RPAREN_BRAILLE>>
        /\ UnmarkedStarts(braille)
              = IF ~need_indicator /\ LeftSpineLeaf(ast) THEN {1} ELSE {}
        /\ Cardinality(Indicators(braille))
              = Leaves(ast) - Cardinality(UnmarkedStarts(braille))
        /\ \A i \in Indicators(braille) :
              i < Len(braille) /\ braille[i + 1] \in DigitCells

\* "2+3" encoded under a false flag: 2 bare, plus, indicator 3
C14_Witness ==
    /\ latex = <<"2", "+", "3">>
    /\ pc = "done"
    /\ ~need_indicator
    /\ braille = <<3, 34, 60, 9>>

(***************************************************************************)
(* The pipeline followed step by step.  A step is one iteration of the     *)
(* lexer's loop, or one move of the call in progress in the parser or in   *)
(* the encoder: calling a procedure, testing a loop condition and entering *)
(* the loop body, or returning to the caller.  frames holds the calls in   *)
(* progress, the innermost last.                                           *)
(***************************************************************************)
Top(stack) == stack[Len(stack)]

Pop(stack) == SubSeq(stack, 1, Len(stack) - 1)

ReplaceTop(stack, frame) == [stack EXCEPT ![Len(stack)] = frame]

\* one pass through the loop of tokenize
TokenizeIteration ==
    /\ pc \in {"lexer", "lexing"}
    /\ LET it == tokenize_iteration(lexer.text, lexer.pos, tokens)
       IN  /\ lexer' = [lexer EXCEPT !.pos = it.pos]
           /\ tokens' = it.tokens
           /\ error' = it.error
           /\ pc' = IF it.error # NoError THEN "raised"
                    ELSE IF it.stop THEN "tokens" ELSE "lexing"
    /\ UNCHANGED <<latex, parser_pos, ast, debug_str, braille, need_indicator, frames, accepted>>

\* A call of a Parser procedure: where it stands (at), the node it holds
\* (node, tree or inner) and the operator it consumed (op_tok.value)
ParserFrame(proc, at) == [proc |-> proc, at |-> at, node |-> NoNode, op |-> << >>]

\* The innermost parser call returns value: the caller's assignment
\*   node = self.parse_term()            (at "left")
\*   right = ...; node = BinaryOpNode()  (at "right")
\*   inner = self.parse_expr()           (at "inner")
\*   tree = self.parse_expr()            (at "tree")
ParserReturn(stack, value) ==
    LET caller == Top(Pop(stack))
    IN  ReplaceTop(Pop(stack),
            CASE caller.at = "left"  -> [caller EXCEPT !.node = value, !.at = "loop"]
              [] caller.at = "right" ->
                    [caller EXCEPT !.node = BinaryOpNode(caller.op, caller.node, value),
                                   !.at = "loop"]
              [] caller.at = "inner" -> [caller EXCEPT !.node = value, !.at = "close"]
              [] caller.at = "tree"  -> [caller EXCEPT !.node = value, !.at = "eof"])

\* What a parser step leaves behind
ParserGoesOn(stack, pos) ==
    [frames |-> stack, pos |-> pos, ast |-> NoNode, error |-> NoError]

ParserRaises(pos, err) ==
    [frames |-> << >>, pos |-> pos, ast |-> NoNode, error |-> err]

ParserReturns(tree, pos) ==
    [frames |-> << >>, pos |-> pos, ast |-> tree, error |-> NoError]

\* Parser.parse: tree = self.parse_expr(), then self._eat(EOF); return tree
parse_step(toks, pos, stack) ==
    IF Top(stack).at = "start"
    THEN ParserGoesOn(Append(ReplaceTop(stack, [Top(stack) EXCEPT !.at = "tree"]),
                             ParserFrame("parse_expr", "start")), pos)
    ELSE IF _eat(toks, pos, "EOF").error # NoError
    THEN ParserRaises(pos, _eat(toks, pos, "EOF").error)
    ELSE ParserReturns(Top(stack).node, _eat(toks, pos, "EOF").pos)

\* an operator loop entering its body without consuming the operator
loop_step_not_advancing(toks, pos, stack, operators, operand) ==
    IF Top(stack).at = "start"
    THEN ParserGoesOn(Append(ReplaceTop(stack, [Top(stack) EXCEPT !.at = "left"]),
                             ParserFrame(operand, "start")), pos)
    ELSE IF ~Parser_in_range(toks, pos) THEN ParserRaises(pos, IndexError)
    ELSE IF Parser_current(toks, pos).type \in operators
    THEN ParserGoesOn(
             Append(ReplaceTop(stack,
                        [Top(stack) EXCEPT !.at = "right",
                                           !.op = Parser_current(toks, pos).value]),
                    ParserFrame(operand, "start")), pos)
    ELSE ParserGoesOn(ParserReturn(stack, Top(stack).node), pos)

\* parse_expr and parse_term: node = operand(), then the while loop, whose
\* condition looks at the current token and whose body consumes the
\* operator (_advance) and calls operand() again; return node
loop_step(toks, pos, stack, operators, operand) ==
    IF Top(stack).at = "start"
    THEN ParserGoesOn(Append(ReplaceTop(stack, [Top(stack) EXCEPT !.at = "left"]),
                             ParserFrame(operand, "start")), pos)
    ELSE IF ~Parser_in_range(toks, pos) THEN ParserRaises(pos, IndexError)
    ELSE IF Parser_current(toks, pos).type \in operators
    THEN ParserGoesOn(
             Append(ReplaceTop(stack,
                        [Top(stack) EXCEPT !.at = "right",
                                           !.op = Parser_current(toks, pos).value]),
                    ParserFrame(operand, "start")), pos + 1)
    ELSE ParserGoesOn(ParserReturn(stack, Top(stack).node), pos)

\* Parser.parse_factor
parse_factor_step(toks, pos, stack) ==
    IF Top(stack).at = "start"
    THEN IF ~Parser_in_range(toks, pos) THEN ParserRaises(pos, IndexError)
         ELSE IF Parser_current(toks, pos).type = "NUMBER"
         THEN ParserGoesOn(
                  ParserReturn(stack, NumberNode(Parser_current(toks, pos).value)),
                  pos + 1)
         ELSE IF Parser_current(toks, pos).type = "LPAREN"
         THEN ParserGoesOn(
                  Append(ReplaceTop(stack, [Top(stack) EXCEPT !.at = "inner"]),
                         ParserFrame("parse_expr", "start")),
                  _eat(toks, pos, "LPAREN").pos)
         ELSE ParserRaises(pos, ParseError({"NUMBER", "LPAREN"},
                                           Parser_current(toks, pos)))
    ELSE IF _eat(toks, pos, "RPAREN").error # NoError
    THEN ParserRaises(pos, _eat(toks, pos, "RPAREN").error)
    ELSE ParserGoesOn(ParserReturn(stack, GroupNode(Top(stack).node)),
                      _eat(toks, pos, "RPAREN").pos)

\* Parser(tokens).parse() is called
ParseCall ==
    /\ pc = "tokens"
    /\ pc' = "parsing"
    /\ parser_pos' = 0
    /\ frames' = <<ParserFrame("parse", "start")>>
    /\ UNCHANGED <<latex, lexer, tokens, ast, debug_str, braille, error, need_indicator, accepted>>

\* the parser after a step of the procedure proc
ParserStep(proc, after) ==
    /\ pc = "parsing"
    /\ Top(frames).proc = proc
    /\ frames' = after.frames
    /\ parser_pos' = after.pos
    /\ ast' = after.ast
    /\ error' = after.error
    /\ pc' = IF after.error # NoError THEN "raised"
             ELSE IF after.frames = << >> THEN "ast" ELSE "parsing"
    /\ UNCHANGED <<latex, lexer, tokens, debug_str, braille, need_indicator, accepted>>

ParseStep == ParserStep("parse", parse_step(tokens, parser_pos, frames))

ParseExprStep ==
    ParserStep("parse_expr",
               loop_step(tokens, parser_pos, frames, {"PLUS", "MINUS"}, "parse_term"))

ParseTermStep ==
    ParserStep("parse_term",
               loop_step(tokens, parser_pos, frames, {"STAR", "SLASH"}, "parse_factor"))

ParseFactorStep ==
    ParserStep("parse_factor", parse_factor_step(tokens, parser_pos, frames))

\* A call of BrailleVisitor._visit(node, flag): the _ContextVisitor made for
\* it with its flag, where its visit method stands (at) and the strings it
\* holds (left and right, or inner in left)
VisitorFrame(node, flag) ==
    [proc |-> "_visit", at |-> "start", node |-> node, need_indicator |-> flag,
     left |-> << >>, right |-> << >>]

\* What an encoder step leaves behind
VisitorGoesOn(stack) == [frames |-> stack, out |-> << >>, error |-> NoError]

VisitorRaises(err) == [frames |-> << >>, out |-> << >>, error |-> err]

\* The innermost visit returns the string value: to the caller's left, right
\* or inner, or as the result of the traversal
VisitorReturn(stack, value) ==
    IF Len(stack) = 1 THEN [frames |-> << >>, out |-> value, error |-> NoError]
    ELSE LET caller == Top(Pop(stack))
         IN  VisitorGoesOn(ReplaceTop(Pop(stack),
                 CASE caller.at = "left"  -> [caller EXCEPT !.left = value, !.at = "op"]
                   [] caller.at = "right" -> [caller EXCEPT !.right = value, !.at = "join"]
                   [] caller.at = "inner" -> [caller EXCEPT !.left = value, !.at = "wrap"]))

\* _ContextVisitor.visit_number
visit_number_step(stack) ==
    IF _number_to_braille(Top(stack).node.value, Top(stack).need_indicator).error
           # NoError
    THEN VisitorRaises(
             _number_to_braille(Top(stack).node.value,
                                Top(stack).need_indicator).error)
    ELSE VisitorReturn(stack,
             _number_to_braille(Top(stack).node.value,
                                Top(stack).need_indicator).out)

\* visit_binary_op calling _visit on the left operand with a false flag
visit_binary_op_step_left_unmarked(stack) ==
    CASE Top(stack).at = "start" ->
            VisitorGoesOn(Append(ReplaceTop(stack, [Top(stack) EXCEPT !.at = "left"]),
                                 VisitorFrame(Top(stack).node.left, FALSE)))
      [] Top(stack).at = "op" ->
            IF Top(stack).node.op \notin DOMAIN OP_MAP
            THEN VisitorRaises(KeyError(Top(stack).node.op))
            ELSE VisitorGoesOn(
                     Append(ReplaceTop(stack, [Top(stack) EXCEPT !.at = "right"]),
                            VisitorFrame(Top(stack).node.right, TRUE)))
      [] Top(stack).at = "join" ->
            VisitorReturn(stack, Top(stack).left \o OP_MAP[Top(stack).node.op]
                                     \o Top(stack).right)

\* _ContextVisitor.visit_binary_op: left = _visit(node.left, own flag),
\* op = OP_MAP[node.op], right = _visit(node.right, True), return the three
visit_binary_op_step(stack) ==
    CASE Top(stack).at = "start" ->
            VisitorGoesOn(Append(ReplaceTop(stack, [Top(stack) EXCEPT !.at = "left"]),
                                 VisitorFrame(Top(stack).node.left,
                                              Top(stack).need_indicator)))
      [] Top(stack).at = "op" ->
            IF Top(stack).node.op \notin DOMAIN OP_MAP
            THEN VisitorRaises(KeyError(Top(stack).node.op))
            ELSE VisitorGoesOn(
                     Append(ReplaceTop(stack, [Top(stack) EXCEPT !.at = "right"]),
                            VisitorFrame(Top(stack).node.right, TRUE)))
      [] Top(stack).at = "join" ->
            VisitorReturn(stack, Top(stack).left \o OP_MAP[Top(stack).node.op]
                                     \o Top(stack).right)

\* _ContextVisitor.visit_group: inner = _visit(node.expr, True), return it
\* between the brackets
visit_group_step(stack) ==
    IF Top(stack).at = "start"
    THEN VisitorGoesOn(Append(ReplaceTop(stack, [Top(stack) EXCEPT !.at = "inner"]),
                              VisitorFrame(Top(stack).node.expr, TRUE)))
    ELSE VisitorReturn(stack, <<LPAREN_BRAILLE>> \o Top(stack).left
                                  \o <<RPAREN_BRAILLE>>)

\* BrailleVisitor().convert(ast) is called: self._visit(node, need_indicator=True)
ConvertCall ==
    /\ pc = "ast"
    /\ pc' = "encoding"
    /\ need_indicator' = TRUE
    /\ frames' = <<VisitorFrame(ast, TRUE)>>
    /\ UNCHANGED <<latex, lexer, tokens, parser_pos, ast, debug_str, braille, error, accepted>>

\* the encoder after a step of the visit of a node of type node_type
VisitorStep(node_type, after) ==
    /\ pc = "encoding"
    /\ Top(frames).node.type = node_type
    /\ frames' = after.frames
    /\ braille' = after.out
    /\ error' = after.error
    /\ pc' = IF after.error # NoError THEN "raised"
             ELSE IF after.frames = << >> THEN "done" ELSE "encoding"
    /\ UNCHANGED <<latex, lexer, tokens, parser_pos, ast, debug_str, need_indicator, accepted>>

VisitNumberStep == VisitorStep("NumberNode", visit_number_step(frames))

VisitBinaryOpStep == VisitorStep("BinaryOpNode", visit_binary_op_step(frames))

VisitGroupStep == VisitorStep("GroupNode", visit_group_step(frames))

\* BrailleVisitor.visit_number
BrailleVisitor_visit_number(node) == _number_to_braille(node.value, TRUE)

\* the left + op + right of BrailleVisitor.visit_binary_op
BrailleVisitor_join(node, left, right) ==
    IF left.error # NoError THEN left
    ELSE IF node.op \notin DOMAIN OP_MAP THEN EncodeRaise(KeyError(node.op))
    ELSE IF right.error # NoError THEN right
    ELSE Encoded(left.out \o OP_MAP[node.op] \o right.out)

\* BrailleVisitor.visit_binary_op
BrailleVisitor_visit_binary_op(node) ==
    BrailleVisitor_join(node, _visit(node.left, TRUE), _visit(node.right, TRUE))

\* the brackets of BrailleVisitor.visit_group around inner
BrailleVisitor_wrap(inner) ==
    IF inner.error # NoError THEN inner
    ELSE Encoded(<<LPAREN_BRAILLE>> \o inner.out \o <<RPAREN_BRAILLE>>)

\* BrailleVisitor.visit_group
BrailleVisitor_visit_group(node) == BrailleVisitor_wrap(_visit(node.expr, TRUE))

\* node.accept(visitor) with a BrailleVisitor: the node calls the visit
\* method of its own type
accept_BrailleVisitor(node) ==
    CASE node.type = "NumberNode"   -> BrailleVisitor_visit_number(node)
      [] node.type = "BinaryOpNode" -> BrailleVisitor_visit_binary_op(node)
      [] node.type = "GroupNode"    -> BrailleVisitor_visit_group(node)

\* ast.accept(BrailleVisitor()) on the tree of the run
Accept ==
    /\ ast # NoNode
    /\ accepted' = [called |-> TRUE, out |-> accept_BrailleVisitor(ast).out,
                    error |-> accept_BrailleVisitor(ast).error]
    /\ UNCHANGED <<latex, pc, lexer, tokens, parser_pos, ast, debug_str, braille, error,
                   need_indicator, frames>>

StepNext ==
    \/ NewLexer \/ TokenizeIteration
    \/ ParseCall \/ ParseStep \/ ParseExprStep \/ ParseTermStep \/ ParseFactorStep
    \/ ConvertCall \/ VisitNumberStep \/ VisitBinaryOpStep \/ VisitGroupStep

\* The texts followed step by step: the free texts shorter than MaxLen, the
\* three-operand expressions and the examples
StepInputs ==
    {text \in FreeTexts : Len(text) < MaxLen} \cup ThreeOperandTexts \cup ExampleTexts

StepInit == Init /\ latex \in StepInputs

StepSpec == StepInit /\ [][StepNext]_vars

\* The program is one thread running to the end of each call: a step that
\* can be taken is taken
FairStepSpec == StepSpec /\ WF_vars(StepNext)

\* The steps of the pipeline, and the tree dispatched directly as well
StepAcceptNext == StepNext \/ Accept

StepAcceptSpec == StepInit /\ [][StepAcceptNext]_vars

\* The steps arrive where the stages taken whole arrive
StepsAgree ==
    /\ pc \in {"tokens", "raised"} /\ error.type \in {"None", "LexError"} =>
          [tokens |-> tokens, pos |-> lexer.pos, error |-> error]
              = tokenize(Lexer(latex))
    /\ pc = "ast" \/ (pc = "raised" /\ error.type \in {"ParseError", "IndexError"}) =>
          [node |-> ast, pos |-> parser_pos, error |-> error] = parse(tokens)
    /\ pc = "done" \/ (pc = "raised" /\ error.type = "KeyError") =>
          /\ [node |-> ast, pos |-> parser_pos, error |-> NoError] = parse(tokens)
          /\ [out |-> braille, error |-> error] = convert(ast)
    /\ pc \in {"done", "raised"} =>
          [braille |-> braille, error |-> error] = latex_to_korean_braille(latex)

(***************************************************************************)
(* C15.  Every run of the pipeline terminates.  Each pass through the      *)
(* lexer's loop that neither stops nor fails moves the lexer's position    *)
(* forward; each pass through a loop of the parser moves the parser's      *)
(* position forward, no parser step moves it back, and until the final     *)
(* check it stays on a token, at most on the EOF token; the encoder calls  *)
(* itself only on children of the node it is visiting; and every run       *)
(* reaches the point where convert has returned or something was raised.   *)
(***************************************************************************)
\* a pass through the tokenize loop that goes on to the next pass
LexerGoesOn == pc \in {"lexer", "lexing"} /\ pc' = "lexing"

\* a step that enters the body of the while loop of parse_expr or parse_term
ParserEntersLoopBody ==
    /\ pc = "parsing"
    /\ pc' = "parsing"
    /\ Top(frames).at = "loop"
    /\ Len(frames') > Len(frames)

Children(node) ==
    CASE node.type = "NumberNode"   -> {}
      [] node.type = "BinaryOpNode" -> {node.left, node.right}
      [] node.type = "GroupNode"    -> {node.expr}

\* a step in which the encoder calls _visit
EncoderCalls == pc = "encoding" /\ pc' = "encoding" /\ Len(frames') > Len(frames)

C15_Terminates ==
    /\ [][LexerGoesOn => lexer'.pos > lexer.pos]_vars
    /\ [][ParserEntersLoopBody => parser_pos' > parser_pos]_vars
    /\ [][pc = "parsing" => parser_pos' >= parser_pos]_vars
    /\ [](pc = "parsing" =>
            /\ parser_pos < Len(tokens)
            /\ tokens[Len(tokens)].type = "EOF")
    /\ [][EncoderCalls => Top(frames').node \in Children(Top(frames).node)]_vars
    /\ <>(pc \in {"done", "raised"})

\* "(2+3)*4" has gone through seven passes of the lexer's loop that went on,
\* one pass of each parser loop, a parse_expr inside a parse_factor, and
\* visits two levels deep, and convert has returned
C15_Witness ==
    /\ latex = <<"(", "2", "+", "3", ")", "*", "4">>
    /\ pc = "done"
    /\ frames = << >>
    /\ Len(tokens) = 8
    /\ parser_pos = 8
    /\ braille = <<38, 60, 3, 34, 60, 9, 52, 33, 60, 25>>

(***************************************************************************)
(* C16.  In a traversal started by convert the flag is true at every       *)
(* visit of a node, so the string convert returns has one indicator for    *)
(* each Number leaf of the tree, each directly before a digit cell, and no *)
(* run of digit cells starts without one; and ast.accept(BrailleVisitor()) *)
(* returns that same string (or raises the same exception).                *)
(***************************************************************************)
C16_FlagTrueAtEveryVisit ==
    /\ pc = "encoding" =>
          /\ need_indicator
          /\ \A i \in 1..Len(frames) : frames[i].need_indicator
    /\ pc = "done" =>
          /\ Cardinality(Indicators(braille)) = Leaves(ast)
          /\ \A i \in Indicators(braille) :
                i < Len(braille) /\ braille[i + 1] \in DigitCells
          /\ UnmarkedStarts(braille) = {}
          /\ accepted.called =>
                accepted = [called |-> TRUE, out |-> braille, error |-> NoError]
    /\ pc = "raised" /\ accepted.called => accepted.error = error

\* "$7 - 3 + 1$" converted and dispatched directly: three leaves, three
\* indicators
C16_Witness ==
    /\ latex = <<"$", "7", " ", "-", " ", "3", " ", "+", " ", "1", "$">>
    /\ pc = "done"
    /\ accepted.called
    /\ braille = <<60, 27, 20, 60, 9, 34, 60, 1>>

====
